---- MODULE Spec2Model ----
(***************************************************************************)
(* Tenant resolution and settings lookup of the yoga-saas backend.         *)
(*                                                                         *)
(* JavaScript values are modelled as TLA+ strings.  The two absent values  *)
(* undefined and null are the reserved strings Undefined and Null, which   *)
(* no request value can equal (request strings are built from Alphabet or  *)
(* are the fixed identifiers below, none of which contains "<").           *)
(***************************************************************************)
EXTENDS Naturals, Sequences, FiniteSets, TLC

VARIABLES
  store,    \* the Settings collection, in natural (insertion) order
  pc,       \* per request slot: where its handler stands (each await is a step)
  req,      \* per request slot: the request context after the middleware chain
  loc,      \* per request slot: the handler's local variables
  resp,     \* per request slot: the response written by the handler
  issued,   \* number of requests received so far
  keyArgs,  \* inputs of the key computation under study: two identities
  keyRes,   \* the keys computed for keyArgs
  db,       \* the connection to the store: "up" (readyState 1) or "down"
  mwArgs,   \* the request and configuration the auth middleware is run on
  mwRes,    \* what the auth middleware made of mwArgs
  tokenCache,  \* verification results kept by verifyAccessToken, by cache key
  authRun,  \* the auth middleware at work on mwArgs.r: where it stands
  events,   \* the Event collection, in insertion order
  eventsStore,  \* the events kept in memory while the store is away
  registrations  \* the Registration collection, in insertion order

vars == <<store, pc, req, loc, resp, issued, keyArgs, keyRes, db, mwArgs, mwRes,
          tokenCache, authRun, events, eventsStore, registrations>>

----------------------------------------------------------------------------
(* Bounds *)

NumProcs == 2      \* requests handled concurrently
MaxRequests == 3   \* requests received in one run
MaxIdLen == 3      \* length of the identifiers fed to the key computation

Procs == 1..NumProcs

----------------------------------------------------------------------------
(* JavaScript values *)

Undefined == "<undefined>"
Null == "<null>"

\* !v : undefined, null and the empty string are falsy
Falsy(v) == v \in {Undefined, Null, ""}
Truthy(v) == ~Falsy(v)

\* a || b
Or(a, b) == IF Truthy(a) THEN a ELSE b

\* typeof v === 'string'
IsString(v) == v \notin {Undefined, Null}

Alphabet == {"a", "-"}

RECURSIVE StringsUpTo(_)
StringsUpTo(n) ==
  IF n = 0 THEN {""}
  ELSE LET shorter == StringsUpTo(n - 1)
       IN  shorter \cup {s \o c : s \in shorter, c \in Alphabet}

\* String.prototype.trim: strip white space at both ends
IsSpace(c) == c \in {" ", "\t"}

RECURSIVE TrimStart(_)
TrimStart(s) ==
  IF Len(s) > 0 /\ IsSpace(SubSeq(s, 1, 1))
  THEN TrimStart(SubSeq(s, 2, Len(s)))
  ELSE s

RECURSIVE TrimEnd(_)
TrimEnd(s) ==
  IF Len(s) > 0 /\ IsSpace(SubSeq(s, Len(s), Len(s)))
  THEN TrimEnd(SubSeq(s, 1, Len(s) - 1))
  ELSE s

Trim(s) == TrimEnd(TrimStart(s))

\* String.prototype.replace(pat, ''): drop the first occurrence of pat
RECURSIVE RemoveFirstFrom(_, _, _)
RemoveFirstFrom(s, pat, i) ==
  IF i + Len(pat) - 1 > Len(s) THEN s
  ELSE IF SubSeq(s, i, i + Len(pat) - 1) = pat
       THEN SubSeq(s, 1, i - 1) \o SubSeq(s, i + Len(pat), Len(s))
       ELSE RemoveFirstFrom(s, pat, i + 1)

RemoveFirst(s, pat) == RemoveFirstFrom(s, pat, 1)

----------------------------------------------------------------------------
(* The tenant key *)

\* a key computation that forgets the component
computeTenantKeyNoComp(instanceId, compId) ==
  IF Falsy(instanceId) THEN "default"
  ELSE "yoga-" \o instanceId

\* a key computation that treats only undefined as an absent instance
computeTenantKeyOnlyUndefined(instanceId, compId) ==
  IF instanceId = Undefined THEN "default"
  ELSE "yoga-" \o instanceId \o (IF Truthy(compId) THEN "-" \o compId ELSE "")

computeTenantKey(instanceId, compId) ==
  IF Falsy(instanceId) THEN "default"
  ELSE "yoga-" \o instanceId \o (IF Truthy(compId) THEN "-" \o compId ELSE "")

----------------------------------------------------------------------------
(* Requests and the middleware chain *)

\* What the handlers of this model read of an HTTP request.
\*   kind           the route
\*   authorization  the Authorization header
\*   hCompId        the X-Wix-Comp-Id header, when it is a string
\*   hCompIdList    the X-Wix-Comp-Id header, when it is a list of strings
\*   hInstance      the X-Wix-Instance header
\*   hTenantId      the X-Tenant-ID header
\*   qCompId        the query parameter compId
\*   qCompIdAlt     the query parameter comp_id
\*   qCompIdDash    the query parameter comp-id
\*   qInstance      the query parameter instance
\*   bCompId        the body field compId
\*   bInstanceId    the body field instanceId
\*   bPlan          the body field premiumPlanName
\*   bPrefs         the preference groups of the body
\*   pId            the route parameter id
\*   bTitle         the body field title
\*   bEmail         the body field email
\* kind is one of widgetData, register, premiumStatus, getUiPrefs,
\* postUiPrefs, putUiPrefs.
\* The Wix token-info service and the app-instance lookup, as the table of
\* the credentials it accepts; any other credential makes it throw.
\* TokenA is a credential of more than 20 characters that the service
\* accepts; TokenForged ends in the same 20 characters and is not accepted.
Signature == "aaaaaaaaaaaaaaaaaaaa"
TokenA == "A." \o Signature
TokenForged == "B." \o Signature

KnownTokens == {"T1", "T2", TokenA}

TokenInstanceId(accessToken) ==
  CASE accessToken = "T1" -> "s1"
    [] accessToken = "T2" -> "s2"
    [] accessToken = TokenA -> "s1"
    [] OTHER -> Undefined

TokenVendorProductId(accessToken) == Null

\* WIX_APP_ID and WIX_APP_SECRET are set
AppConfigured == mwArgs.configured

\* NODE_ENV is 'production'
Production == mwArgs.production

extractCompId(r) ==
  LET queryCompIdAlt == Or(r.qCompIdAlt, r.qCompIdDash)
  IN  IF IsString(r.hCompId) /\ Truthy(Trim(r.hCompId)) THEN Trim(r.hCompId)
      ELSE IF Len(r.hCompIdList) > 0 /\ Truthy(r.hCompIdList[1])
           THEN Trim(r.hCompIdList[1])
      ELSE IF IsString(r.qCompId) /\ Truthy(Trim(r.qCompId)) THEN Trim(r.qCompId)
      ELSE IF IsString(queryCompIdAlt) /\ Truthy(Trim(queryCompIdAlt))
           THEN Trim(queryCompIdAlt)
      ELSE IF IsString(r.bCompId) /\ Truthy(Trim(r.bCompId)) THEN Trim(r.bCompId)
      ELSE Undefined

\* The preference groups of a document or of a request body, by the fields
\* of them that this model follows:
\*   layoutDefaultMode       layout.defaultMode
\*   appearancePrimaryColor  appearance.primaryColor
\*   uiPrimaryColor          uiPreferences.primaryColor
\*   uiLanguage              uiPreferences.language
\*   calendarWeekStartsOn    calendar.weekStartsOn
\*   behaviorLanguage        behavior.language
\* A group is absent when its fields are undefined.
NoPrefs ==
  [layoutDefaultMode |-> Undefined, appearancePrimaryColor |-> Undefined,
   uiPrimaryColor |-> Undefined, uiLanguage |-> Undefined,
   calendarWeekStartsOn |-> Undefined, behaviorLanguage |-> Undefined]

\* req.wix as optionalWixAuth leaves it; present = FALSE when it is not set
NoWix ==
  [present |-> FALSE, instanceId |-> Undefined, compId |-> Undefined,
   vendorProductId |-> Undefined]

EditorWix(compId) ==
  IF Truthy(compId)
  THEN [present |-> TRUE, instanceId |-> "", compId |-> compId,
        vendorProductId |-> Undefined]
  ELSE NoWix

\* What a middleware did with a request: the req.wix it left, how many times
\* it called next, and the status of the response it wrote (0: none).
Proceed(wix) == [wix |-> wix, nextCalls |-> 1, status |-> 0]
Abort(status) == [wix |-> NoWix, nextCalls |-> 0, status |-> status]

\* a middleware that turns away a request without a verified credential
optionalWixAuthRequired(r) ==
  LET compId == extractCompId(r)
      authHeader == Or(r.authorization, "")
      accessToken == RemoveFirst(authHeader, "Bearer ")
  IN  IF Falsy(accessToken) THEN Abort(401)
      ELSE IF ~AppConfigured THEN Abort(500)
      ELSE IF accessToken \in KnownTokens
           THEN Proceed([present |-> TRUE,
                         instanceId |-> TokenInstanceId(accessToken),
                         compId |-> compId,
                         vendorProductId |-> TokenVendorProductId(accessToken)])
           ELSE Abort(401)

optionalWixAuth(r) ==
  LET compId == extractCompId(r)
      authHeader == Or(r.authorization, "")
      accessToken == RemoveFirst(authHeader, "Bearer ")
  IN  IF Falsy(accessToken) THEN Proceed(EditorWix(compId))      \* return next()
      ELSE IF ~AppConfigured THEN Proceed(EditorWix(compId))     \* return next()
      ELSE IF accessToken \in KnownTokens
           THEN Proceed([present |-> TRUE,
                         instanceId |-> TokenInstanceId(accessToken),
                         compId |-> compId,
                         vendorProductId |-> TokenVendorProductId(accessToken)])
           ELSE Proceed(EditorWix(compId))   \* verification threw: catch, next()

\* String.prototype.slice(-n): the last n characters
SliceLast(s, n) ==
  IF Len(s) <= n THEN s ELSE SubSeq(s, Len(s) - n + 1, Len(s))

\* the key under which verifyAccessToken caches the result for a credential
cacheKey(accessToken) == "wix_token_" \o SliceLast(accessToken, 20)

\* the identity verifyAccessToken returns
NoIdentity ==
  [instanceId |-> Undefined, appDefId |-> Undefined, vendorProductId |-> Undefined]

\* What the token-info service and the app-instance lookup answer for a
\* credential: ok = FALSE when one of them throws or no instanceId comes back.
TokenInfo(accessToken) ==
  IF accessToken \in KnownTokens
  THEN [ok |-> TRUE,
        result |-> [instanceId |-> TokenInstanceId(accessToken),
                    appDefId |-> "app",
                    vendorProductId |-> TokenVendorProductId(accessToken)]]
  ELSE [ok |-> FALSE, result |-> NoIdentity]

\* the credential both middlewares read from the Authorization header
AccessToken(r) == RemoveFirst(Or(r.authorization, ""), "Bearer ")

\* req.wix as both middlewares set it after a verification
VerifiedWix(wixData, compId) ==
  [present |-> TRUE, instanceId |-> wixData.instanceId, compId |-> compId,
   vendorProductId |-> wixData.vendorProductId]

\* The payload of an X-Wix-Instance value: the first dot-separated segment,
\* base64-decoded and parsed as JSON.  The table lists the values that decode;
\* for any other value decoding throws and instanceData stays null.
DecodedInstanceTenant(instance) ==
  CASE instance = "I1.sig" -> "s1"
    [] OTHER -> Null

extractTenantInfo(r) ==
  LET compId == Or(r.hCompId, r.qCompId)
      instance == Or(r.hInstance, r.qInstance)
      instanceData == IF Truthy(instance) THEN DecodedInstanceTenant(instance) ELSE Null
  IN  [compId |-> compId,
       instance |-> instance,
       tenantId |-> Or(r.hTenantId, instanceData)]

\* req.tenantKey as attachTenantInfo sets it
attachTenantInfo(r) ==
  LET tenantInfo == extractTenantInfo(r)
  IN  IF Truthy(tenantInfo.compId) /\ Truthy(tenantInfo.instance)
      THEN IF tenantInfo.compId = "default" /\ tenantInfo.instance = "default"
           THEN "default"
           ELSE tenantInfo.compId \o ":" \o tenantInfo.instance
      ELSE IF Truthy(tenantInfo.tenantId) THEN tenantInfo.tenantId
      ELSE "default"

\* The request context a handler starts from: attachTenantInfo runs on every
\* request, optionalWixAuth on every route of this model.
Context(r) ==
  LET wix == optionalWixAuth(r).wix
  IN  [kind |-> r.kind,
       instanceId |-> wix.instanceId,          \* req.wix?.instanceId
       compId |-> wix.compId,                  \* req.wix?.compId
       vendorProductId |-> wix.vendorProductId,
       tenantKey |-> attachTenantInfo(r),      \* req.tenantKey
       bInstanceId |-> r.bInstanceId,
       bPlan |-> r.bPlan,
       bPrefs |-> r.bPrefs,
       pId |-> r.pId,
       bTitle |-> r.bTitle,
       bEmail |-> r.bEmail]

NoContext ==
  [kind |-> "none", instanceId |-> Undefined, compId |-> Undefined,
   vendorProductId |-> Undefined, tenantKey |-> Undefined,
   bInstanceId |-> Undefined, bPlan |-> Undefined, bPrefs |-> NoPrefs,
   pId |-> Undefined, bTitle |-> Undefined, bEmail |-> Undefined]

----------------------------------------------------------------------------
(* The Settings collection *)

\* A stored document; _id is its position in the collection.  prefs are its
\* preference groups, see NoPrefs.
Doc(id, tenantKey, instanceId, compId, plan) ==
  [id |-> id, tenantKey |-> tenantKey, instanceId |-> instanceId,
   compId |-> compId, premiumPlanName |-> plan, prefs |-> NoPrefs]

\* no document (null)
NoDoc == Doc(0, Undefined, Undefined, Undefined, Undefined)

\* the enum of premiumPlanName in the schema
PlanEnum == {"free", "light", "business", "business-pro", "true"}

\* premiumPlanName stored with a new document: the schema default is 'free'
PlanOrDefault(plan) == IF plan = Undefined THEN "free" ELSE plan

\* Settings.findOne(filter): the first match in natural order, or null
\* (hits are the positions of the documents the filter matches)
FindOne(hits) ==
  IF hits = {} THEN NoDoc
  ELSE store[CHOOSE i \in hits : \A j \in hits : i <= j]

ByTenantKey(key) == FindOne({i \in DOMAIN store : store[i].tenantKey = key})
ByInstanceId(instanceId) ==
  FindOne({i \in DOMAIN store : store[i].instanceId = instanceId})
ByCompId(compId) == FindOne({i \in DOMAIN store : store[i].compId = compId})

\* Settings.find({ tenantKey: { $in: keys } }), in natural order
FindByKeys(keys) == SelectSeq(store, LAMBDA d : d.tenantKey \in keys)

\* Array.prototype.find on a query result: first element with that key, or null
FirstWithKey(configs, key) ==
  LET hits == {i \in DOMAIN configs : configs[i].tenantKey = key}
  IN  IF hits = {} THEN NoDoc
      ELSE configs[CHOOSE i \in hits : \A j \in hits : i <= j]

\* insert of a new document
Inserted(tenantKey, instanceId, compId, plan) ==
  Append(store, Doc(Len(store) + 1, tenantKey, instanceId, compId, PlanOrDefault(plan)))

\* A stored event: _id, the tenantKey, instanceId and compId it was created
\* with, its title, and maxParticipants and requiresPayment, here with the
\* values POST /api/events gives them when the body has neither.
EventDoc(id, tenantKey, instanceId, compId, title) ==
  [id |-> id, tenantKey |-> tenantKey, instanceId |-> instanceId,
   compId |-> compId, title |-> title, maxParticipants |-> 20,
   requiresPayment |-> FALSE]

\* no event (null)
NoEvent == EventDoc(Undefined, Undefined, Undefined, Undefined, Undefined)

\* the _id of the n-th registration saved
RegistrationIds == <<"r1", "r2", "r3", "r4", "r5">>

\* the confirmed and paid registrations of an event under a tenant key
ConfirmedOf(eventId, tenantKey) ==
  {i \in DOMAIN registrations :
     /\ registrations[i].eventId = eventId
     /\ registrations[i].tenantKey = tenantKey
     /\ registrations[i].paymentCompleted
     /\ registrations[i].status = "confirmed"}

\* the _id of the n-th event saved to the collection
EventIds == <<"e1", "e2", "e3", "e4", "e5">>

\* the _id 'event-<Date.now()>' of an event created in memory by the n-th
\* request
MemoryIds == <<"m1", "m2", "m3", "m4", "m5">>

\* Event.find({ compId, isVisible: { $ne: false } })
EventsByCompId(compId) ==
  {events[i] : i \in {j \in DOMAIN events : events[j].compId = compId}}

\* Event.find({ instanceId, compId, isVisible: { $ne: false } })
EventsByInstanceAndCompId(instanceId, compId) ==
  {events[i] : i \in {j \in DOMAIN events :
                        /\ events[j].instanceId = instanceId
                        /\ events[j].compId = compId}}

\* the positions in a list of the events with this _id and tenantKey
EventAt(list, id, tenantKey) ==
  {i \in DOMAIN list : list[i].id = id /\ list[i].tenantKey = tenantKey}

\* a list without its i-th element
Without(list, i) == SubSeq(list, 1, i - 1) \o SubSeq(list, i + 1, Len(list))

----------------------------------------------------------------------------
(* Handler state *)

\* local variables of a handler
\*   desiredKey           desiredKey / tenantKey of the handler
\*   instanceFallbackKey  the instanceId-only key
\*   saved                savedSettings / settings: the document in hand
\*   plan                 inheritedPremiumPlan
\*   events               events: the result of Event.find
\*   event                event: the result of Event.findOne
\*   registration         registration: the position of the registration found
NoLoc ==
  [desiredKey |-> Undefined, instanceFallbackKey |-> Undefined,
   saved |-> NoDoc, plan |-> Undefined, events |-> {}, event |-> NoEvent,
   registration |-> 0]

\* The settings object of a response, by one field of each of its groups:
\* layout.defaultMode, appearance.primaryColor, calendar.weekStartsOn and
\* behavior.language; undefined stands for a group the object lacks.
NoSettings ==
  [layout |-> Undefined, appearance |-> Undefined, calendar |-> Undefined,
   behavior |-> Undefined]

\* defaultSettings of GET /api/widget-data
defaultSettings ==
  [layout |-> "calendar", appearance |-> "#4A90A4", calendar |-> "sunday",
   behavior |-> "en"]

\* a settings object that hands on the stored groups as they are
WidgetSettingsStored(saved) ==
  [layout |-> saved.prefs.layoutDefaultMode,
   appearance |-> saved.prefs.appearancePrimaryColor,
   calendar |-> saved.prefs.calendarWeekStartsOn,
   behavior |-> saved.prefs.behaviorLanguage]

\* the settings object GET /api/widget-data builds from savedSettings (or
\* config); savedSettings may be null
WidgetSettings(saved) ==
  [layout |-> Or(saved.prefs.layoutDefaultMode, "calendar"),
   appearance |-> Or(saved.prefs.uiPrimaryColor, "#4A90A4"),
   calendar |-> Or(saved.prefs.calendarWeekStartsOn, "sunday"),
   behavior |-> Or(saved.prefs.uiLanguage, "en")]

\* panelSettings of GET /api/settings/ui-preferences
PanelSettings(saved) ==
  [layout |-> Or(saved.prefs.layoutDefaultMode, "calendar"),
   appearance |-> Or(saved.prefs.uiPrimaryColor, "#2563eb"),
   calendar |-> Or(saved.prefs.calendarWeekStartsOn, "sunday"),
   behavior |-> Or(saved.prefs.uiLanguage, "en")]

\* the response: status, the document the returned settings were read from
\* (0: the built-in defaults), the premiumPlanName reported, the settings
\* object, the events it carries (for PUT and DELETE /api/events/:id the
\* event that was changed or removed)
NoResp ==
  [status |-> 0, settingsFrom |-> 0, premiumPlanName |-> Undefined,
   settings |-> NoSettings, events |-> {}]

Reply(status, from, plan) ==
  [status |-> status, settingsFrom |-> from, premiumPlanName |-> plan,
   settings |-> NoSettings, events |-> {}]

\* a response that carries a settings object
SettingsReply(status, from, plan, settings) ==
  [status |-> status, settingsFrom |-> from, premiumPlanName |-> plan,
   settings |-> settings, events |-> {}]

\* a response that carries events
EventsReply(status, found) ==
  [status |-> status, settingsFrom |-> 0, premiumPlanName |-> Undefined,
   settings |-> NoSettings, events |-> found]

\* the requests of a route
NoRequest ==
  [kind |-> "none", authorization |-> Undefined, hCompId |-> Undefined,
   hCompIdList |-> <<>>, hInstance |-> Undefined, hTenantId |-> Undefined,
   qCompId |-> Undefined, qCompIdAlt |-> Undefined, qCompIdDash |-> Undefined,
   qInstance |-> Undefined, bCompId |-> Undefined,
   bInstanceId |-> Undefined, bPlan |-> Undefined, bPrefs |-> NoPrefs,
   pId |-> Undefined, bTitle |-> Undefined, bEmail |-> Undefined]

\* a request with these headers: Authorization, X-Wix-Comp-Id, X-Tenant-ID,
\* X-Wix-Instance
Request(kind, a, c, t, i) ==
  [NoRequest EXCEPT !.kind = kind, !.authorization = a, !.hCompId = c,
                    !.hTenantId = t, !.hInstance = i]

\* a request with these body fields: instanceId, premiumPlanName
TierRequest(b, n) ==
  [NoRequest EXCEPT !.kind = "putUiPrefs", !.bInstanceId = b, !.bPlan = n]

\* the header values requests are drawn from
Authorizations == {Undefined, "Bearer T1", "Bearer T2", "Bearer expired"}
CompHeaders == {Undefined, "w1", "w2"}
\* X-Tenant-ID and X-Wix-Instance
NoNoise == <<Undefined, Undefined>>
Noise ==
  {NoNoise, <<"yoga-s1", Undefined>>, <<"yoga-s1-w1", Undefined>>,
   <<Undefined, "I1.sig">>}

\* the requests of a server that handles one request at a time
SerialRequests ==
  {Request("widgetData", a, c, t, Undefined) :
     a \in Authorizations, c \in CompHeaders, t \in {Undefined, "yoga-s1"}}
  \cup {Request("widgetData", a, c, Undefined, "I1.sig") :
     a \in {Undefined, "Bearer T1"}, c \in {Undefined, "w1"}}
  \cup {Request(k, a, c, Undefined, Undefined) :
     k \in {"register", "premiumStatus"},
     a \in Authorizations, c \in CompHeaders}
  \cup {Request("postUiPrefs", a, c, n[1], n[2]) :
     a \in {Undefined, "Bearer T1"}, c \in {Undefined, "w1"}, n \in Noise}
  \cup {TierRequest(b, n) : b \in {Undefined, "s1", "s2"},
                           n \in {Undefined, "light", "gold"}}

\* the requests of a server that handles requests concurrently
ConcurrentRequests ==
  {Request("widgetData", a, c, Undefined, Undefined) :
     a \in {Undefined, "Bearer T1", "Bearer T2"}, c \in CompHeaders}
  \cup {Request("register", a, c, Undefined, Undefined) :
     a \in {Undefined, "Bearer T1", "Bearer T2"}, c \in {Undefined, "w1"}}
  \cup {Request("premiumStatus", a, c, Undefined, Undefined) :
     a \in {Undefined, "Bearer T1"}, c \in {Undefined, "w1"}}
  \cup {Request("postUiPrefs", a, c, t, Undefined) :
     a \in {Undefined, "Bearer T1"}, c \in {Undefined, "w1"},
     t \in {Undefined, "yoga-s1", "yoga-s1-w1"}}
  \cup {TierRequest(b, n) : b \in {Undefined, "s1"}, n \in {Undefined, "light"}}

Free(p) == pc[p] = "idle" /\ issued < MaxRequests

\* a handler starts: it has its context and runs up to its first await
Start(p, r, at, l) ==
  /\ req' = [req EXCEPT ![p] = Context(r)]
  /\ loc' = [loc EXCEPT ![p] = l]
  /\ resp' = [resp EXCEPT ![p] = NoResp]
  /\ pc' = [pc EXCEPT ![p] = at]
  /\ issued' = issued + 1
  /\ UNCHANGED <<store, keyArgs, keyRes, db, mwArgs, mwRes, tokenCache, authRun, events, eventsStore, registrations>>

\* a handler starts and answers at once
Answer(p, r, reply) ==
  /\ req' = [req EXCEPT ![p] = Context(r)]
  /\ loc' = [loc EXCEPT ![p] = NoLoc]
  /\ resp' = [resp EXCEPT ![p] = reply]
  /\ pc' = [pc EXCEPT ![p] = "done"]
  /\ issued' = issued + 1
  /\ UNCHANGED <<store, keyArgs, keyRes, db, mwArgs, mwRes, tokenCache, authRun, events, eventsStore, registrations>>

\* a handler goes on to its next await without touching the store
Goto(p, at, l) ==
  /\ loc' = [loc EXCEPT ![p] = l]
  /\ pc' = [pc EXCEPT ![p] = at]
  /\ UNCHANGED <<store, req, resp, issued, keyArgs, keyRes, db, mwArgs, mwRes, tokenCache, authRun, events, eventsStore, registrations>>

\* a handler answers
Finish(p, l, reply, newStore) ==
  /\ loc' = [loc EXCEPT ![p] = NoLoc]
  /\ resp' = [resp EXCEPT ![p] = reply]
  /\ pc' = [pc EXCEPT ![p] = "done"]
  /\ store' = newStore
  /\ UNCHANGED <<req, issued, keyArgs, keyRes, db, mwArgs, mwRes, tokenCache, authRun, events, eventsStore, registrations>>

\* a store operation threw (or the store was found unavailable) and the
\* handler answers with an error status
Fail(p, status) == Finish(p, loc[p], Reply(status, 0, Undefined), store)

\* premiumPlanName of a response: the stored value first, else the Wix
\* vendorProductId ('true' read as 'light'), else 'free'
ReportedPlan(saved, vendorProductId) ==
  IF Truthy(saved.premiumPlanName) THEN saved.premiumPlanName
  ELSE IF Truthy(vendorProductId)
       THEN (IF vendorProductId = "true" THEN "light" ELSE vendorProductId)
       ELSE "free"

\* a selection that prefers the instance key
BestMatchFallbackFirst(configs, desiredKey, instanceFallbackKey) ==
  LET shared == FirstWithKey(configs, instanceFallbackKey)
  IN  IF shared # NoDoc THEN shared
      ELSE FirstWithKey(configs, desiredKey)

\* savedSettings of a key query: the exact key first, then the instance key
BestMatch(configs, desiredKey, instanceFallbackKey) ==
  LET exact == FirstWithKey(configs, desiredKey)
  IN  IF exact # NoDoc THEN exact
      ELSE FirstWithKey(configs, instanceFallbackKey)

\* the guard of the auto-create step, without its compId test
AutoCreateWithoutCompId(saved, compId, instanceId) ==
  saved = NoDoc /\ Truthy(instanceId)

\* the guard of the auto-create step of GET /api/widget-data
AutoCreate(saved, compId, instanceId) ==
  saved = NoDoc /\ Truthy(compId) /\ Truthy(instanceId)

----------------------------------------------------------------------------
(* GET /api/widget-data *)

WdReply(ctx, saved, found) ==
  [SettingsReply(200, saved.id, ReportedPlan(saved, Or(ctx.vendorProductId, Null)),
                 WidgetSettings(saved))
     EXCEPT !.events = found]

\* desiredKey of a request
DesiredKey(ctx) == computeTenantKey(ctx.instanceId, ctx.compId)

\* the handler up to its first query
WidgetDataStart(p, requests) ==
  /\ Free(p)
  /\ \E r \in {q \in requests : q.kind = "widgetData"} :
       LET ctx == Context(r)
       IN  IF Falsy(ctx.instanceId) /\ Falsy(ctx.compId)
           THEN \* CASE 1: the default data
                Answer(p, r, SettingsReply(200, 0, "free", defaultSettings))
           ELSE IF Falsy(ctx.instanceId)
           THEN \* CASE 2: editor mode
                Start(p, r, "wd_case2", NoLoc)
           ELSE \* CASE 3: authenticated
                Start(p, r, "wd_find",
                      [NoLoc EXCEPT !.desiredKey = DesiredKey(ctx),
                                    !.instanceFallbackKey =
                                        computeTenantKey(ctx.instanceId, Null)])

\* CASE 2: any settings and all events with this compId
WidgetDataCase2(p) ==
  /\ pc[p] = "wd_case2"
  /\ LET config == ByCompId(req[p].compId)
         found == EventsByCompId(req[p].compId)
     IN  IF db # "up" THEN Fail(p, 500)
         ELSE Finish(p, [loc[p] EXCEPT !.saved = config, !.events = found],
                     IF config = NoDoc
                     THEN SettingsReply(200, 0, "free", defaultSettings)
                     ELSE [SettingsReply(200, config.id,
                                         Or(config.premiumPlanName, "free"),
                                         WidgetSettings(config))
                             EXCEPT !.events = found],
                     store)

\* CASE 3: the query by tenant keys and the choice among its results
WidgetDataFind(p) ==
  /\ pc[p] = "wd_find"
  /\ LET found == IF Truthy(req[p].compId)
                  THEN EventsByInstanceAndCompId(req[p].instanceId, req[p].compId)
                  ELSE {}
         l == [loc[p] EXCEPT !.events = found]
         configs == FindByKeys({l.desiredKey, l.instanceFallbackKey})
         saved == BestMatch(configs, l.desiredKey, l.instanceFallbackKey)
     IN  IF db # "up" THEN Fail(p, 500)
         ELSE IF saved # NoDoc
         THEN Finish(p, [l EXCEPT !.saved = saved],
                     WdReply(req[p], saved, found), store)
         ELSE Goto(p, "wd_fb_instance", l)

\* FALLBACK: any settings with this instanceId
WidgetDataFallbackInstance(p) ==
  /\ pc[p] = "wd_fb_instance"
  /\ LET ctx == req[p]
         saved == ByInstanceId(ctx.instanceId)
         l == [loc[p] EXCEPT !.saved = saved]
     IN  IF db # "up" THEN Fail(p, 500)
         ELSE IF saved # NoDoc THEN Finish(p, l, WdReply(ctx, saved, l.events), store)
         ELSE IF Truthy(ctx.compId) THEN Goto(p, "wd_fb_comp", l)
         ELSE IF AutoCreate(saved, ctx.compId, ctx.instanceId)
              THEN Goto(p, "plan_premium", l)
              ELSE Finish(p, l, WdReply(ctx, saved, l.events), store)

\* FALLBACK: any settings with this compId
WidgetDataFallbackComp(p) ==
  /\ pc[p] = "wd_fb_comp"
  /\ LET ctx == req[p]
         saved == ByCompId(ctx.compId)
         l == [loc[p] EXCEPT !.saved = saved]
     IN  IF db # "up" THEN Fail(p, 500)
         ELSE IF AutoCreate(saved, ctx.compId, ctx.instanceId)
         THEN Goto(p, "plan_premium", l)
         ELSE Finish(p, l, WdReply(ctx, saved, l.events), store)

\* an inheritance that gives every new record the tier 'free'
getPremiumPlanFromInstanceFree(p) ==
  /\ pc[p] = "plan_premium"
  /\ Goto(p, IF req[p].kind = "register" THEN "rg_insert" ELSE "wd_create",
          [loc[p] EXCEPT !.plan = "free"])

\* getPremiumPlanFromInstance, first query: a document of the instance with
\* a plan other than 'free'; a query that throws is caught and gives 'free'
getPremiumPlanFromInstance(p) ==
  /\ pc[p] = "plan_premium"
  /\ LET existing == FindOne({i \in DOMAIN store :
                               /\ store[i].instanceId = req[p].instanceId
                               /\ store[i].premiumPlanName # Undefined
                               /\ store[i].premiumPlanName # "free"})
     IN  IF db # "up"
         THEN Goto(p, IF req[p].kind = "register" THEN "rg_insert" ELSE "wd_create",
                   [loc[p] EXCEPT !.plan = "free"])
         ELSE IF Truthy(existing.premiumPlanName)
         THEN Goto(p, IF req[p].kind = "register" THEN "rg_insert" ELSE "wd_create",
                   [loc[p] EXCEPT !.plan = existing.premiumPlanName])
         ELSE Goto(p, "plan_any", loc[p])

\* getPremiumPlanFromInstance, second query: any document of the instance
getPremiumPlanFromInstanceAny(p) ==
  /\ pc[p] = "plan_any"
  /\ LET anySettings == ByInstanceId(req[p].instanceId)
     IN  Goto(p, IF req[p].kind = "register" THEN "rg_insert" ELSE "wd_create",
              [loc[p] EXCEPT !.plan = IF db # "up" THEN "free"
                                      ELSE Or(anySettings.premiumPlanName, "free")])

\* AUTO-CREATE: Settings.create; when it throws (the schema rejects the
\* document, the store is unavailable) nothing is stored and the handler goes
\* on with the defaults
WidgetDataCreate(p) ==
  /\ pc[p] = "wd_create"
  /\ LET ctx == req[p]
         l == loc[p]
         created == Inserted(l.desiredKey, ctx.instanceId, ctx.compId, l.plan)
     IN  IF db = "up" /\ PlanOrDefault(l.plan) \in PlanEnum
         THEN Finish(p, [l EXCEPT !.saved = created[Len(created)]],
                     WdReply(ctx, created[Len(created)], l.events), created)
         ELSE Finish(p, l, WdReply(ctx, NoDoc, l.events), store)

----------------------------------------------------------------------------
(* POST /api/widgets/register *)

RegisterStart(p, requests) ==
  /\ Free(p)
  /\ \E r \in {q \in requests : q.kind = "register"} :
       LET ctx == Context(r)
       IN  IF Falsy(ctx.instanceId) \/ Falsy(ctx.compId)
           THEN Answer(p, r, Reply(400, 0, Undefined))
           ELSE Start(p, r, "rg_find",
                      [NoLoc EXCEPT !.desiredKey =
                                       computeTenantKey(ctx.instanceId, ctx.compId)])

\* find the settings of this widget; an existing document gets the identity
\* fields it lacks
RegisterFind(p) ==
  /\ pc[p] = "rg_find"
  /\ LET settings == ByTenantKey(loc[p].desiredKey)
         l == [loc[p] EXCEPT !.saved = settings]
     IN  IF db # "up" THEN Fail(p, 500)
         ELSE IF settings = NoDoc THEN Goto(p, "plan_premium", l)
         ELSE IF Falsy(settings.instanceId) \/ Falsy(settings.compId)
              THEN Goto(p, "rg_update", l)
              ELSE Finish(p, l, Reply(200, settings.id, Undefined), store)

\* save of the new document; a document the schema rejects makes save throw
RegisterInsert(p) ==
  /\ pc[p] = "rg_insert"
  /\ LET ctx == req[p]
         l == loc[p]
         created == Inserted(l.desiredKey, ctx.instanceId, ctx.compId, l.plan)
     IN  IF db = "up" /\ PlanOrDefault(l.plan) \in PlanEnum
         THEN Finish(p, [l EXCEPT !.saved = created[Len(created)]],
                     Reply(200, Len(created), Undefined), created)
         ELSE Finish(p, l, Reply(500, 0, Undefined), store)

\* save of the existing document: the paths set by the handler are written
RegisterUpdate(p) ==
  /\ pc[p] = "rg_update"
  /\ LET ctx == req[p]
         found == loc[p].saved
         stored == store[found.id]
         written ==
           [stored EXCEPT
              !.instanceId = IF Falsy(found.instanceId) THEN ctx.instanceId ELSE @,
              !.compId = IF Falsy(found.compId) THEN ctx.compId ELSE @]
     IN  IF db # "up" THEN Fail(p, 500)
         ELSE Finish(p, [loc[p] EXCEPT !.saved = written],
                     Reply(200, found.id, Undefined),
                     [store EXCEPT ![found.id] = written])

----------------------------------------------------------------------------
(* GET /api/premium-status *)

PsReply(ctx, saved) ==
  Reply(200, saved.id, ReportedPlan(saved, Or(ctx.vendorProductId, Null)))

\* the answer of GET /api/premium-status to a request, as a function of the
\* store
PremiumStatusOn(ctx) ==
  LET instanceId == Or(ctx.instanceId, Null)
      compId == Or(ctx.compId, Null)
      desiredKey == computeTenantKey(instanceId, compId)
      instanceFallbackKey == computeTenantKey(instanceId, Null)
      configs == FindByKeys({desiredKey, instanceFallbackKey})
  IN  IF Truthy(instanceId)
      THEN PsReply(ctx, BestMatch(configs, desiredKey, instanceFallbackKey))
      ELSE PsReply(ctx, NoDoc)

PremiumStatusStart(p, requests) ==
  /\ Free(p)
  /\ \E r \in {q \in requests : q.kind = "premiumStatus"} :
       LET ctx == Context(r)
           instanceId == Or(ctx.instanceId, Null)
           compId == Or(ctx.compId, Null)
       IN  IF Truthy(instanceId)
           THEN Start(p, r, "ps_find",
                      [NoLoc EXCEPT !.desiredKey = computeTenantKey(instanceId, compId),
                                    !.instanceFallbackKey =
                                        computeTenantKey(instanceId, Null)])
           ELSE Answer(p, r, PsReply(ctx, NoDoc))

PremiumStatusFind(p) ==
  /\ pc[p] = "ps_find"
  /\ LET l == loc[p]
         configs == FindByKeys({l.desiredKey, l.instanceFallbackKey})
         saved == BestMatch(configs, l.desiredKey, l.instanceFallbackKey)
     IN  IF db # "up" THEN Fail(p, 500)
         ELSE Finish(p, [l EXCEPT !.saved = saved], PsReply(req[p], saved), store)

----------------------------------------------------------------------------
(* POST /api/settings/ui-preferences *)

\* without a connection the handler answers success at once
UiPreferencesPostStart(p, requests) ==
  /\ Free(p)
  /\ \E r \in {q \in requests : q.kind = "postUiPrefs"} :
       IF db # "up" THEN Answer(p, r, Reply(200, 0, Undefined))
       ELSE Start(p, r, "pu_find",
                  [NoLoc EXCEPT !.desiredKey = Or(Context(r).tenantKey, "default")])

\* instanceId and compId of the request, set on a document when present
WithIdentity(settings, ctx) ==
  [settings EXCEPT
     !.instanceId = IF Truthy(Or(ctx.instanceId, Null)) THEN ctx.instanceId ELSE @,
     !.compId = IF Truthy(Or(ctx.compId, Null)) THEN ctx.compId ELSE @]

\* the groups a body supplies
HasLayout(body) == Truthy(body.layoutDefaultMode)
HasAppearance(body) == Truthy(body.appearancePrimaryColor)
HasUiPreferences(body) == Truthy(body.uiPrimaryColor) \/ Truthy(body.uiLanguage)
HasCalendar(body) == Truthy(body.calendarWeekStartsOn)
HasBehavior(body) == Truthy(body.behaviorLanguage)

\* the fields of the body copied onto the groups of a document: each supplied
\* group key by key, appearance.primaryColor also to uiPreferences.primaryColor
WithPrefs(prefs, body) ==
  [layoutDefaultMode |->
     IF HasLayout(body) THEN body.layoutDefaultMode ELSE prefs.layoutDefaultMode,
   appearancePrimaryColor |->
     IF HasAppearance(body) THEN body.appearancePrimaryColor
     ELSE prefs.appearancePrimaryColor,
   uiPrimaryColor |->
     IF Truthy(body.uiPrimaryColor) THEN body.uiPrimaryColor
     ELSE IF HasAppearance(body) THEN body.appearancePrimaryColor
     ELSE prefs.uiPrimaryColor,
   uiLanguage |->
     IF Truthy(body.uiLanguage) THEN body.uiLanguage ELSE prefs.uiLanguage,
   calendarWeekStartsOn |->
     IF HasCalendar(body) THEN body.calendarWeekStartsOn
     ELSE prefs.calendarWeekStartsOn,
   behaviorLanguage |->
     IF HasBehavior(body) THEN body.behaviorLanguage ELSE prefs.behaviorLanguage]

\* the groups written by save(): those marked modified are written whole from
\* the document in memory, the others stay as stored
SavedPrefs(stored, memory, body) ==
  [layoutDefaultMode |->
     IF HasLayout(body) THEN memory.layoutDefaultMode ELSE stored.layoutDefaultMode,
   appearancePrimaryColor |->
     IF HasAppearance(body) THEN memory.appearancePrimaryColor
     ELSE stored.appearancePrimaryColor,
   uiPrimaryColor |->
     IF HasAppearance(body) \/ HasUiPreferences(body) THEN memory.uiPrimaryColor
     ELSE stored.uiPrimaryColor,
   uiLanguage |->
     IF HasAppearance(body) \/ HasUiPreferences(body) THEN memory.uiLanguage
     ELSE stored.uiLanguage,
   calendarWeekStartsOn |->
     IF HasCalendar(body) THEN memory.calendarWeekStartsOn
     ELSE stored.calendarWeekStartsOn,
   behaviorLanguage |->
     IF HasBehavior(body) THEN memory.behaviorLanguage ELSE stored.behaviorLanguage]

\* the document of req.tenantKey, or a new one
UiPreferencesPostFind(p) ==
  /\ pc[p] = "pu_find"
  /\ LET found == ByTenantKey(loc[p].desiredKey)
         settings == IF found = NoDoc
                     THEN Doc(0, loc[p].desiredKey, Undefined, Undefined, "free")
                     ELSE found
     IN  IF db # "up" THEN Fail(p, 500)
         ELSE Goto(p, "pu_save", [loc[p] EXCEPT !.saved = settings])

\* settings.save(): an insert of the new document, or a write of the paths
\* the handler changed or marked modified
UiPreferencesPostSave(p) ==
  /\ pc[p] = "pu_save"
  /\ LET loaded == loc[p].saved
         body == req[p].bPrefs
         settings == [WithIdentity(loaded, req[p]) EXCEPT
                        !.prefs = WithPrefs(loaded.prefs, body)]
     IN  IF db # "up" THEN Fail(p, 500)
         ELSE IF loaded.id = 0
         THEN LET created == Append(store, [settings EXCEPT !.id = Len(store) + 1])
              IN  Finish(p, loc[p], Reply(200, Len(created), Undefined), created)
         ELSE LET written ==
                    [store[loaded.id] EXCEPT
                       !.instanceId = IF settings.instanceId # loaded.instanceId
                                      THEN settings.instanceId ELSE @,
                       !.compId = IF settings.compId # loaded.compId
                                  THEN settings.compId ELSE @,
                       !.prefs = SavedPrefs(@, settings.prefs, body)]
              IN  Finish(p, loc[p], Reply(200, loaded.id, Undefined),
                         [store EXCEPT ![loaded.id] = written])

----------------------------------------------------------------------------
(* GET /api/settings/ui-preferences *)

\* without a connection the query is skipped and the defaults are returned
UiPreferencesGetStart(p, requests) ==
  /\ Free(p)
  /\ \E r \in {q \in requests : q.kind = "getUiPrefs"} :
       IF db # "up"
       THEN Answer(p, r, SettingsReply(200, 0, "free", PanelSettings(NoDoc)))
       ELSE Start(p, r, "gu_find",
                  [NoLoc EXCEPT !.desiredKey = Or(Context(r).tenantKey, "default")])

UiPreferencesGetFind(p) ==
  /\ pc[p] = "gu_find"
  /\ LET saved == ByTenantKey(loc[p].desiredKey)
     IN  IF db # "up" THEN Fail(p, 500)
         ELSE Finish(p, [loc[p] EXCEPT !.saved = saved],
                     SettingsReply(200, saved.id, Or(saved.premiumPlanName, "free"),
                                   PanelSettings(saved)),
                     store)

----------------------------------------------------------------------------
(* /api/events *)

\* tenantKey of the events routes
EventsKey(ctx) == Or(ctx.tenantKey, "default")

\* eventsStore.get(tenantKey)
InMemory(tenantKey) ==
  {eventsStore[i] : i \in {j \in DOMAIN eventsStore :
                             eventsStore[j].tenantKey = tenantKey}}

\* the update { ...req.body, tenantKey } applied to an event
EventUpdated(event, ctx) ==
  [event EXCEPT !.title = IF ctx.bTitle # Undefined THEN ctx.bTitle ELSE @,
                !.tenantKey = EventsKey(ctx)]

\* an events handler answers after a query on the Event collection
EventsFinish(p, reply, newEvents) ==
  /\ loc' = [loc EXCEPT ![p] = NoLoc]
  /\ resp' = [resp EXCEPT ![p] = reply]
  /\ pc' = [pc EXCEPT ![p] = "done"]
  /\ events' = newEvents
  /\ UNCHANGED <<store, req, issued, keyArgs, keyRes, db, mwArgs, mwRes,
                 tokenCache, authRun, eventsStore, registrations>>

\* an events handler starts and answers at once from the events in memory
EventsAnswer(p, r, reply, newMemory) ==
  /\ req' = [req EXCEPT ![p] = Context(r)]
  /\ loc' = [loc EXCEPT ![p] = NoLoc]
  /\ resp' = [resp EXCEPT ![p] = reply]
  /\ pc' = [pc EXCEPT ![p] = "done"]
  /\ issued' = issued + 1
  /\ eventsStore' = newMemory
  /\ UNCHANGED <<store, keyArgs, keyRes, db, mwArgs, mwRes, tokenCache, authRun,
                 events, registrations>>

\* GET /api/events
EventsGetStart(p, requests) ==
  /\ Free(p)
  /\ \E r \in {q \in requests : q.kind = "getEvents"} :
       IF db # "up"
       THEN EventsAnswer(p, r, EventsReply(200, InMemory(EventsKey(Context(r)))),
                         eventsStore)
       ELSE Start(p, r, "ev_find", NoLoc)

\* Event.find(query): tenantKey, and instanceId and compId when the request
\* has them (the Registration queries that follow fill in the participants)
EventsGetFind(p) ==
  /\ pc[p] = "ev_find"
  /\ LET ctx == req[p]
         hits == {i \in DOMAIN events :
                    /\ events[i].tenantKey = EventsKey(ctx)
                    /\ Truthy(ctx.instanceId) => events[i].instanceId = ctx.instanceId
                    /\ Truthy(ctx.compId) => events[i].compId = ctx.compId}
     IN  IF db # "up" THEN Fail(p, 500)
         ELSE EventsFinish(p, EventsReply(200, {events[i] : i \in hits}), events)

\* POST /api/events
EventsPostStart(p, requests) ==
  /\ Free(p)
  /\ \E r \in {q \in requests : q.kind = "postEvent"} :
       LET ctx == Context(r)
           newEvent == EventDoc(MemoryIds[issued + 1], EventsKey(ctx),
                                ctx.instanceId, ctx.compId, ctx.bTitle)
       IN  IF db # "up"
           THEN EventsAnswer(p, r, EventsReply(201, {newEvent}),
                             Append(eventsStore, newEvent))
           ELSE Start(p, r, "ev_save", NoLoc)

\* event.save(): the schema requires a title
EventsPostSave(p) ==
  /\ pc[p] = "ev_save"
  /\ LET ctx == req[p]
         event == EventDoc(EventIds[issued], EventsKey(ctx), ctx.instanceId,
                           ctx.compId, ctx.bTitle)
     IN  IF db # "up" \/ Falsy(ctx.bTitle) THEN Fail(p, 500)
         ELSE EventsFinish(p, EventsReply(201, {event}), Append(events, event))

\* PUT /api/events/:id
EventsPutStart(p, requests) ==
  /\ Free(p)
  /\ \E r \in {q \in requests : q.kind = "putEvent"} :
       LET ctx == Context(r)
           hits == EventAt(eventsStore, ctx.pId, EventsKey(ctx))
           eventIndex == CHOOSE i \in hits : \A j \in hits : i <= j
       IN  IF db # "up"
           THEN IF hits = {}
                THEN EventsAnswer(p, r, Reply(404, 0, Undefined), eventsStore)
                ELSE EventsAnswer(p, r, EventsReply(200, {eventsStore[eventIndex]}),
                                  [eventsStore EXCEPT
                                     ![eventIndex] = EventUpdated(@, ctx)])
           ELSE Start(p, r, "ev_update", NoLoc)

\* Event.findOneAndUpdate({ _id, tenantKey }, { ...req.body, tenantKey })
EventsPutUpdate(p) ==
  /\ pc[p] = "ev_update"
  /\ LET ctx == req[p]
         hits == EventAt(events, ctx.pId, EventsKey(ctx))
         i == CHOOSE h \in hits : \A j \in hits : h <= j
     IN  IF db # "up" THEN Fail(p, 500)
         ELSE IF hits = {} THEN EventsFinish(p, Reply(404, 0, Undefined), events)
         ELSE EventsFinish(p, EventsReply(200, {events[i]}),
                           [events EXCEPT ![i] = EventUpdated(@, ctx)])

\* DELETE /api/events/:id
EventsDeleteStart(p, requests) ==
  /\ Free(p)
  /\ \E r \in {q \in requests : q.kind = "deleteEvent"} :
       LET ctx == Context(r)
           hits == EventAt(eventsStore, ctx.pId, EventsKey(ctx))
           eventIndex == CHOOSE i \in hits : \A j \in hits : i <= j
       IN  IF db # "up"
           THEN IF hits = {}
                THEN EventsAnswer(p, r, Reply(404, 0, Undefined), eventsStore)
                ELSE EventsAnswer(p, r, EventsReply(200, {eventsStore[eventIndex]}),
                                  Without(eventsStore, eventIndex))
           ELSE Start(p, r, "ev_delete", NoLoc)

\* Event.findOneAndDelete({ _id, tenantKey })
EventsDelete(p) ==
  /\ pc[p] = "ev_delete"
  /\ LET ctx == req[p]
         hits == EventAt(events, ctx.pId, EventsKey(ctx))
         i == CHOOSE h \in hits : \A j \in hits : h <= j
     IN  IF db # "up" THEN Fail(p, 500)
         ELSE IF hits = {} THEN EventsFinish(p, Reply(404, 0, Undefined), events)
         ELSE EventsFinish(p, EventsReply(200, {events[i]}), Without(events, i))

----------------------------------------------------------------------------
(* POST /api/events/:id/register and POST /api/settings/confirm-payment/:id *)

\* a handler answers after a write to the Registration collection
RegistrationsFinish(p, reply, newRegistrations) ==
  /\ loc' = [loc EXCEPT ![p] = NoLoc]
  /\ resp' = [resp EXCEPT ![p] = reply]
  /\ pc' = [pc EXCEPT ![p] = "done"]
  /\ registrations' = newRegistrations
  /\ UNCHANGED <<store, req, issued, keyArgs, keyRes, db, mwArgs, mwRes,
                 tokenCache, authRun, events, eventsStore>>

EventRegisterStart(p, requests) ==
  /\ Free(p)
  /\ \E r \in {q \in requests : q.kind = "registerForEvent"} :
       IF db # "up" THEN Answer(p, r, Reply(503, 0, Undefined))
       ELSE Start(p, r, "er_event", NoLoc)

\* Event.findOne({ _id, tenantKey })
EventRegisterEvent(p) ==
  /\ pc[p] = "er_event"
  /\ LET hits == EventAt(events, req[p].pId, EventsKey(req[p]))
     IN  IF db # "up" THEN Fail(p, 500)
         ELSE IF hits = {} THEN Fail(p, 404)
         ELSE Goto(p, "er_count",
                   [loc[p] EXCEPT !.event = events[CHOOSE i \in hits : TRUE]])

\* Registration.countDocuments of the confirmed and paid registrations, and
\* the comparison with maxParticipants
EventRegisterCount(p) ==
  /\ pc[p] = "er_count"
  /\ LET confirmedCount == Cardinality(ConfirmedOf(req[p].pId, EventsKey(req[p])))
     IN  IF db # "up" THEN Fail(p, 500)
         ELSE IF confirmedCount >= loc[p].event.maxParticipants THEN Fail(p, 400)
         ELSE Goto(p, "er_existing", loc[p])

\* Registration.findOne: a pending or confirmed registration with this email
EventRegisterExisting(p) ==
  /\ pc[p] = "er_existing"
  /\ LET existing == {i \in DOMAIN registrations :
                        /\ registrations[i].eventId = req[p].pId
                        /\ registrations[i].email = req[p].bEmail
                        /\ registrations[i].tenantKey = EventsKey(req[p])
                        /\ registrations[i].status \in {"pending_payment",
                                                        "confirmed"}}
     IN  IF db # "up" THEN Fail(p, 500)
         ELSE IF existing # {} THEN Fail(p, 400)
         ELSE Goto(p, "er_save", loc[p])

\* registration.save(): free events are confirmed at once
EventRegisterSave(p) ==
  /\ pc[p] = "er_save"
  /\ LET requiresPayment == loc[p].event.requiresPayment
         paymentCompleted == ~requiresPayment
         registration ==
           [id |-> RegistrationIds[Len(registrations) + 1],
            eventId |-> req[p].pId,
            email |-> req[p].bEmail,
            paymentCompleted |-> paymentCompleted,
            status |-> IF paymentCompleted THEN "confirmed" ELSE "pending_payment",
            tenantKey |-> EventsKey(req[p])]
     IN  IF db # "up" THEN Fail(p, 500)
         ELSE /\ registrations' = Append(registrations, registration)
              /\ pc' = [pc EXCEPT ![p] = "er_mail"]
              /\ UNCHANGED <<store, req, loc, resp, issued, keyArgs, keyRes, db,
                             mwArgs, mwRes, tokenCache, authRun, events,
                             eventsStore>>

\* Settings.findOne for the admin email; its failure is caught, the emails
\* are sent without waiting, and the handler answers 201
EventRegisterMail(p) ==
  /\ pc[p] = "er_mail"
  /\ Finish(p, loc[p], Reply(201, 0, Undefined), store)

ConfirmPaymentStart(p, requests) ==
  /\ Free(p)
  /\ \E r \in {q \in requests : q.kind = "confirmPayment"} :
       Start(p, r, "cp_find", NoLoc)

\* Registration.findById
ConfirmPaymentFind(p) ==
  /\ pc[p] = "cp_find"
  /\ LET hits == {i \in DOMAIN registrations : registrations[i].id = req[p].pId}
         i == CHOOSE h \in hits : TRUE
     IN  IF db # "up" THEN Fail(p, 500)
         ELSE IF hits = {} THEN Fail(p, 404)
         ELSE IF registrations[i].paymentCompleted THEN Fail(p, 400)
         ELSE Goto(p, "cp_save", [loc[p] EXCEPT !.registration = i])

\* registration.save() with paymentCompleted and status set
ConfirmPaymentSave(p) ==
  /\ pc[p] = "cp_save"
  /\ IF db # "up" THEN Fail(p, 500)
     ELSE RegistrationsFinish(p, Reply(200, 0, Undefined),
            [registrations EXCEPT
               ![loc[p].registration] =
                  [@ EXCEPT !.paymentCompleted = TRUE, !.status = "confirmed"]])

----------------------------------------------------------------------------
(* PUT /api/settings/ui-preferences: the tier of an instance *)

UiPreferencesPutStart(p, requests) ==
  /\ Free(p)
  /\ \E r \in {q \in requests : q.kind = "putUiPrefs"} :
       IF Falsy(r.bInstanceId) \/ Falsy(r.bPlan)
       THEN Answer(p, r, Reply(400, 0, Undefined))
       ELSE IF db # "up" THEN Answer(p, r, Reply(503, 0, Undefined))
       ELSE Start(p, r, "put_update", NoLoc)

\* Settings.updateMany({ instanceId }, { $set: { premiumPlanName } })
UiPreferencesPutUpdate(p) ==
  /\ pc[p] = "put_update"
  /\ IF db # "up" THEN Fail(p, 500)
     ELSE Finish(p, loc[p], Reply(200, 0, Undefined),
                 [i \in DOMAIN store |->
                    IF store[i].instanceId = req[p].bInstanceId
                    THEN [store[i] EXCEPT !.premiumPlanName = req[p].bPlan]
                    ELSE store[i]])

----------------------------------------------------------------------------
(* The server *)

NoKeyArgs == <<<<Undefined, Undefined>>, <<Undefined, Undefined>>>>
NoKeyRes == <<Undefined, Undefined>>

\* the middleware has not run; the app is configured
NoMwArgs == [r |-> NoRequest, configured |-> TRUE, production |-> FALSE]
NoMwRes == [computed |-> FALSE, compId |-> Undefined, auth |-> Abort(0)]

\* an empty token cache
NoCache == [k \in {} |-> NoIdentity]

\* The auth middleware at work on the request mwArgs.r.
\*   phase    idle, verifying (awaiting the external service), answered
\*            (the service has answered) or done
\*   mode     strict (verifyWixInstance) or optional (optionalWixAuth)
\*   wixData  what verifyAccessToken returned, NoIdentity when it did not
\*   hit      the result came from the token cache
\*   out      what the middleware did with the request
\*   error    the error message of the response it wrote
NoAuthRun ==
  [phase |-> "idle", mode |-> "strict", wixData |-> NoIdentity, hit |-> FALSE,
   out |-> Abort(0), error |-> Undefined]

Init ==
  /\ store = <<>>
  /\ pc = [p \in Procs |-> "idle"]
  /\ req = [p \in Procs |-> NoContext]
  /\ loc = [p \in Procs |-> NoLoc]
  /\ resp = [p \in Procs |-> NoResp]
  /\ issued = 0
  /\ keyArgs = NoKeyArgs
  /\ keyRes = NoKeyRes
  /\ db = "up"
  /\ mwArgs = NoMwArgs
  /\ mwRes = NoMwRes
  /\ tokenCache = NoCache
  /\ authRun = NoAuthRun
  /\ events = <<>>
  /\ eventsStore = <<>>
  /\ registrations = <<>>

\* the response is sent and the slot is free again
Close(p) ==
  /\ pc[p] = "done"
  /\ pc' = [pc EXCEPT ![p] = "idle"]
  /\ req' = [req EXCEPT ![p] = NoContext]
  /\ resp' = [resp EXCEPT ![p] = NoResp]
  /\ UNCHANGED <<store, loc, issued, keyArgs, keyRes, db, mwArgs, mwRes, tokenCache, authRun, events, eventsStore, registrations>>

Handle(p, requests) ==
  \/ WidgetDataStart(p, requests)
  \/ WidgetDataCase2(p)
  \/ WidgetDataFind(p)
  \/ WidgetDataFallbackInstance(p)
  \/ WidgetDataFallbackComp(p)
  \/ getPremiumPlanFromInstance(p)
  \/ getPremiumPlanFromInstanceAny(p)
  \/ WidgetDataCreate(p)
  \/ RegisterStart(p, requests)
  \/ RegisterFind(p)
  \/ RegisterInsert(p)
  \/ RegisterUpdate(p)
  \/ PremiumStatusStart(p, requests)
  \/ PremiumStatusFind(p)
  \/ UiPreferencesPostStart(p, requests)
  \/ UiPreferencesPostFind(p)
  \/ UiPreferencesPostSave(p)
  \/ UiPreferencesPutStart(p, requests)
  \/ UiPreferencesPutUpdate(p)
  \/ Close(p)

\* requests are handled concurrently: the handlers interleave at their awaits
Next == \E p \in Procs : Handle(p, ConcurrentRequests)

Spec == Init /\ [][Next]_vars

\* one request at a time
Serial == Handle(1, SerialRequests)

SpecSerial == Init /\ [][Serial]_vars

----------------------------------------------------------------------------
(* The settings panel and the widget against a store that comes and goes:
   one request at a time *)

\* the connection to the store is lost
Disconnect ==
  /\ db = "up"
  /\ db' = "down"
  /\ UNCHANGED <<store, pc, req, loc, resp, issued, keyArgs, keyRes, mwArgs, mwRes, tokenCache, authRun, events, eventsStore, registrations>>

\* the connection to the store is back
Reconnect ==
  /\ db = "down"
  /\ db' = "up"
  /\ UNCHANGED <<store, pc, req, loc, resp, issued, keyArgs, keyRes, mwArgs, mwRes, tokenCache, authRun, events, eventsStore, registrations>>

\* bodies of POST /api/settings/ui-preferences
OnlyAppearance == [NoPrefs EXCEPT !.appearancePrimaryColor = "#111111"]
LayoutAndUiPreferences ==
  [NoPrefs EXCEPT !.layoutDefaultMode = "list", !.uiPrimaryColor = "#222222",
                  !.uiLanguage = "fr"]
CalendarAndBehavior ==
  [NoPrefs EXCEPT !.calendarWeekStartsOn = "monday", !.behaviorLanguage = "de"]
AppearanceAndLanguage ==
  [NoPrefs EXCEPT !.appearancePrimaryColor = "#111111", !.uiLanguage = "es"]
Bodies ==
  {OnlyAppearance, LayoutAndUiPreferences, CalendarAndBehavior,
   AppearanceAndLanguage}

PanelRequests ==
  {Request("widgetData", a, c, Undefined, Undefined) :
     a \in {Undefined, "Bearer T1"}, c \in {Undefined, "w1"}}
  \cup {Request("getUiPrefs", a, c, Undefined, Undefined) :
     a \in {Undefined, "Bearer T1"}, c \in {Undefined, "w1"}}
  \cup {[Request("postUiPrefs", a, c, Undefined, Undefined)
           EXCEPT !.bPrefs = b] :
     a \in {Undefined, "Bearer T1", "Bearer T2"}, c \in {Undefined, "w1"},
     b \in Bodies}

Panel ==
  \/ WidgetDataStart(1, PanelRequests)
  \/ WidgetDataCase2(1)
  \/ WidgetDataFind(1)
  \/ WidgetDataFallbackInstance(1)
  \/ WidgetDataFallbackComp(1)
  \/ getPremiumPlanFromInstance(1)
  \/ getPremiumPlanFromInstanceAny(1)
  \/ WidgetDataCreate(1)
  \/ UiPreferencesGetStart(1, PanelRequests)
  \/ UiPreferencesGetFind(1)
  \/ UiPreferencesPostStart(1, PanelRequests)
  \/ UiPreferencesPostFind(1)
  \/ UiPreferencesPostSave(1)
  \/ Close(1)
  \/ Disconnect
  \/ Reconnect

SpecPanel == Init /\ [][Panel]_vars

----------------------------------------------------------------------------
(* The events of the calendar: created, listed, changed and removed through
   /api/events and shown by the widget, one request at a time, against a
   store that comes and goes *)

\* a site with its instance header, the same site without it, an editor
WithInstanceHeader(kind) == Request(kind, "Bearer T1", "w1", Undefined, "I1.sig")
WithoutInstanceHeader(kind) == Request(kind, "Bearer T1", "w1", Undefined, Undefined)
FromEditor(kind) == Request(kind, Undefined, "w1", Undefined, Undefined)

EventRequests ==
  {[WithInstanceHeader("postEvent") EXCEPT !.bTitle = "yoga"],
   [FromEditor("postEvent") EXCEPT !.bTitle = "yoga"],
   WithInstanceHeader("getEvents"), WithoutInstanceHeader("getEvents"),
   WithInstanceHeader("widgetData"), WithoutInstanceHeader("widgetData"),
   FromEditor("widgetData")}
  \cup {[q EXCEPT !.pId = id, !.bTitle = "flow"] :
          q \in {WithInstanceHeader("putEvent"), FromEditor("putEvent")},
          id \in {"e1", "m1"}}
  \cup {[q EXCEPT !.pId = id] :
          q \in {WithInstanceHeader("deleteEvent"), FromEditor("deleteEvent")},
          id \in {"e1", "m1"}}

Calendar ==
  \/ WidgetDataStart(1, EventRequests)
  \/ WidgetDataCase2(1)
  \/ WidgetDataFind(1)
  \/ WidgetDataFallbackInstance(1)
  \/ WidgetDataFallbackComp(1)
  \/ getPremiumPlanFromInstance(1)
  \/ getPremiumPlanFromInstanceAny(1)
  \/ WidgetDataCreate(1)
  \/ EventsGetStart(1, EventRequests)
  \/ EventsGetFind(1)
  \/ EventsPostStart(1, EventRequests)
  \/ EventsPostSave(1)
  \/ EventsPutStart(1, EventRequests)
  \/ EventsPutUpdate(1)
  \/ EventsDeleteStart(1, EventRequests)
  \/ EventsDelete(1)
  \/ Close(1)
  \/ Disconnect
  \/ Reconnect

SpecEvents == Init /\ [][Calendar]_vars

----------------------------------------------------------------------------
(* Bookings: an event with one place, free or paid, and concurrent requests
   that register for it and confirm payments *)

BookableEvents ==
  {[EventDoc("e1", "default", Undefined, Undefined, "yoga")
      EXCEPT !.maxParticipants = 1, !.requiresPayment = b] : b \in BOOLEAN}

BookingRequests ==
  {[NoRequest EXCEPT !.kind = "registerForEvent", !.pId = id, !.bEmail = e] :
     id \in {"e1", "e2"}, e \in {"a@x", "b@x"}}
  \cup {[NoRequest EXCEPT !.kind = "confirmPayment", !.pId = id] :
     id \in {"r1", "r2", "r3"}}

InitBooking ==
  /\ store = <<>>
  /\ pc = [p \in Procs |-> "idle"]
  /\ req = [p \in Procs |-> NoContext]
  /\ loc = [p \in Procs |-> NoLoc]
  /\ resp = [p \in Procs |-> NoResp]
  /\ issued = 0
  /\ keyArgs = NoKeyArgs
  /\ keyRes = NoKeyRes
  /\ db = "up"
  /\ mwArgs = NoMwArgs
  /\ mwRes = NoMwRes
  /\ tokenCache = NoCache
  /\ authRun = NoAuthRun
  /\ events \in {<<event>> : event \in BookableEvents}
  /\ eventsStore = <<>>
  /\ registrations = <<>>

Booking ==
  \E p \in Procs :
    \/ EventRegisterStart(p, BookingRequests)
    \/ EventRegisterEvent(p)
    \/ EventRegisterCount(p)
    \/ EventRegisterExisting(p)
    \/ EventRegisterSave(p)
    \/ EventRegisterMail(p)
    \/ ConfirmPaymentStart(p, BookingRequests)
    \/ ConfirmPaymentFind(p)
    \/ ConfirmPaymentSave(p)
    \/ Close(p)

SpecBooking == InitBooking /\ [][Booking]_vars

----------------------------------------------------------------------------
(* The key computation on its own: two identities are drawn, their keys are
   computed *)

KeyValues == StringsUpTo(MaxIdLen) \cup {Undefined, Null}

InitKey ==
  /\ store = <<>>
  /\ pc = [p \in Procs |-> "idle"]
  /\ req = [p \in Procs |-> NoContext]
  /\ loc = [p \in Procs |-> NoLoc]
  /\ resp = [p \in Procs |-> NoResp]
  /\ issued = 0
  /\ keyArgs \in (KeyValues \X KeyValues) \X (KeyValues \X KeyValues)
  /\ keyRes = NoKeyRes
  /\ db = "up"
  /\ mwArgs = NoMwArgs
  /\ mwRes = NoMwRes
  /\ tokenCache = NoCache
  /\ authRun = NoAuthRun
  /\ events = <<>>
  /\ eventsStore = <<>>
  /\ registrations = <<>>

ComputeKeys ==
  /\ keyRes = NoKeyRes
  /\ keyRes' = <<computeTenantKey(keyArgs[1][1], keyArgs[1][2]),
                 computeTenantKey(keyArgs[2][1], keyArgs[2][2])>>
  /\ UNCHANGED <<store, pc, req, loc, resp, issued, keyArgs, db, mwArgs, mwRes, tokenCache, authRun, events, eventsStore, registrations>>

SpecKey == InitKey /\ [][ComputeKeys]_vars

KeysComputed == keyRes # NoKeyRes

\* two identities are the same: the same instance, and the same component or
\* both without one
SameIdentity(a, b) ==
  /\ a[1] = b[1]
  /\ (a[2] = b[2] \/ (Falsy(a[2]) /\ Falsy(b[2])))

----------------------------------------------------------------------------
(* The auth middleware on its own: a request and a configuration are drawn,
   extractCompId and optionalWixAuth run on them *)

\* values of a compId source: absent, empty, blank, plain, padded
CompValues == {Undefined, "", " ", "w1", " w2 "}

\* an X-Wix-Comp-Id header that arrives as a list
HeaderLists == {<<" ">>, <<"w3">>, <<"", "w3">>}

\* no credential, an empty one, accepted ones (with and without the Bearer
\* prefix), one the token-info service rejects or fails on
MiddlewareAuthorizations ==
  {Undefined, "Bearer ", "Bearer T1", "T2", "Bearer expired"}

MiddlewareRequests ==
  {[NoRequest EXCEPT !.kind = "widgetData", !.authorization = a, !.hCompId = h,
                     !.qCompId = q, !.qCompIdAlt = u, !.qCompIdDash = d,
                     !.bCompId = b] :
     a \in MiddlewareAuthorizations, h \in CompValues, q \in CompValues,
     u \in CompValues, d \in CompValues, b \in CompValues}
  \cup {[NoRequest EXCEPT !.kind = "widgetData", !.authorization = a,
                          !.hCompIdList = h, !.qCompId = q] :
     a \in MiddlewareAuthorizations, h \in HeaderLists, q \in CompValues}

InitMiddleware ==
  /\ store = <<>>
  /\ pc = [p \in Procs |-> "idle"]
  /\ req = [p \in Procs |-> NoContext]
  /\ loc = [p \in Procs |-> NoLoc]
  /\ resp = [p \in Procs |-> NoResp]
  /\ issued = 0
  /\ keyArgs = NoKeyArgs
  /\ keyRes = NoKeyRes
  /\ db = "up"
  /\ mwArgs \in {[r |-> q, configured |-> c, production |-> FALSE] :
                   q \in MiddlewareRequests, c \in BOOLEAN}
  /\ mwRes = NoMwRes
  /\ tokenCache = NoCache
  /\ authRun = NoAuthRun
  /\ events = <<>>
  /\ eventsStore = <<>>
  /\ registrations = <<>>

RunMiddleware ==
  /\ ~mwRes.computed
  /\ mwRes' = [computed |-> TRUE,
               compId |-> extractCompId(mwArgs.r),
               auth |-> optionalWixAuth(mwArgs.r)]
  /\ UNCHANGED <<store, pc, req, loc, resp, issued, keyArgs, keyRes, db, mwArgs, tokenCache, authRun, events, eventsStore, registrations>>

SpecMiddleware == InitMiddleware /\ [][RunMiddleware]_vars

----------------------------------------------------------------------------
(* The two auth middlewares with the token cache: requests arrive one after
   the other, each is held while the external verification is awaited, and
   cache entries expire *)

AuthAuthorizations ==
  {Undefined, "Bearer " \o TokenA, "Bearer " \o TokenForged, "Bearer T2",
   "Bearer expired"}

AuthRequests ==
  {[NoRequest EXCEPT !.kind = "widgetData", !.authorization = a, !.hCompId = h] :
     a \in AuthAuthorizations, h \in {Undefined, "w1"}}

InitAuth ==
  /\ store = <<>>
  /\ pc = [p \in Procs |-> "idle"]
  /\ req = [p \in Procs |-> NoContext]
  /\ loc = [p \in Procs |-> NoLoc]
  /\ resp = [p \in Procs |-> NoResp]
  /\ issued = 0
  /\ keyArgs = NoKeyArgs
  /\ keyRes = NoKeyRes
  /\ db = "up"
  /\ mwArgs \in {[r |-> NoRequest, configured |-> c, production |-> n] :
                   c \in BOOLEAN, n \in BOOLEAN}
  /\ mwRes = NoMwRes
  /\ tokenCache = NoCache
  /\ authRun = NoAuthRun
  /\ events = <<>>
  /\ eventsStore = <<>>
  /\ registrations = <<>>

AuthDone(mode, wixData, hit, out, error) ==
  [phase |-> "done", mode |-> mode, wixData |-> wixData, hit |-> hit,
   out |-> out, error |-> error]

\* the catch block of each middleware
AuthCaught(mode, compId) ==
  IF mode = "optional"
  THEN AuthDone(mode, NoIdentity, FALSE, Proceed(EditorWix(compId)), Undefined)
  ELSE IF ~Production
       THEN AuthDone(mode, NoIdentity, FALSE, Proceed(NoWix), Undefined)
       ELSE AuthDone(mode, NoIdentity, FALSE, Abort(401),
                     "Invalid or expired access token")

\* verifyAccessToken up to its first await: the cache lookup
AuthVerify(mode, q) ==
  LET key == cacheKey(AccessToken(q))
  IN  IF key \in DOMAIN tokenCache
      THEN AuthDone(mode, tokenCache[key], TRUE,
                    Proceed(VerifiedWix(tokenCache[key], extractCompId(q))),
                    Undefined)
      ELSE [NoAuthRun EXCEPT !.phase = "verifying", !.mode = mode]

AuthReceive(q, run) ==
  /\ authRun.phase \in {"idle", "done"}
  /\ issued < MaxRequests
  /\ issued' = issued + 1
  /\ mwArgs' = [mwArgs EXCEPT !.r = q]
  /\ authRun' = run
  /\ UNCHANGED <<store, pc, req, loc, resp, keyArgs, keyRes, db, mwRes, tokenCache, events, eventsStore, registrations>>

\* verifyWixInstance up to the external verification
verifyWixInstanceStart ==
  \E q \in AuthRequests :
    AuthReceive(q,
      IF Falsy(AccessToken(q))
      THEN IF ~Production
           THEN AuthDone("strict", NoIdentity, FALSE, Proceed(NoWix), Undefined)
           ELSE AuthDone("strict", NoIdentity, FALSE, Abort(401),
                         "Authentication token required")
      ELSE IF ~AppConfigured
           THEN IF Production
                THEN AuthDone("strict", NoIdentity, FALSE, Abort(500),
                              "Server configuration error")
                ELSE AuthDone("strict", NoIdentity, FALSE, Proceed(NoWix), Undefined)
           ELSE AuthVerify("strict", q))

\* optionalWixAuth up to the external verification
optionalWixAuthStart ==
  \E q \in AuthRequests :
    AuthReceive(q,
      IF Falsy(AccessToken(q)) \/ ~AppConfigured
      THEN AuthDone("optional", NoIdentity, FALSE,
                    Proceed(EditorWix(extractCompId(q))), Undefined)
      ELSE AuthVerify("optional", q))

\* The external service answers the calls verifyAccessToken awaits.  The
\* calls are made without a timeout: nothing else ends the wait.
TokenInfoResponds ==
  /\ authRun.phase = "verifying"
  /\ authRun' = [authRun EXCEPT !.phase = "answered"]
  /\ UNCHANGED <<store, pc, req, loc, resp, issued, keyArgs, keyRes, db, mwArgs,
                 mwRes, tokenCache, events, eventsStore, registrations>>

\* verifyAccessToken after its awaits: it caches and returns the identity,
\* or throws, and the middleware goes on from there.
verifyAccessTokenAnswer ==
  /\ authRun.phase = "answered"
  /\ LET accessToken == AccessToken(mwArgs.r)
         key == cacheKey(accessToken)
         info == TokenInfo(accessToken)
         compId == extractCompId(mwArgs.r)
     IN  IF info.ok
         THEN /\ tokenCache' = [k \in DOMAIN tokenCache \cup {key} |->
                                  IF k = key THEN info.result ELSE tokenCache[k]]
              /\ authRun' = AuthDone(authRun.mode, info.result, FALSE,
                                     Proceed(VerifiedWix(info.result, compId)),
                                     Undefined)
         ELSE /\ tokenCache' = tokenCache
              /\ authRun' = AuthCaught(authRun.mode, compId)
  /\ UNCHANGED <<store, pc, req, loc, resp, issued, keyArgs, keyRes, db, mwArgs, mwRes, events, eventsStore, registrations>>

\* stdTTL: an entry leaves the cache 300 seconds after it was set
CacheExpire ==
  /\ \E key \in DOMAIN tokenCache :
       tokenCache' = [k \in DOMAIN tokenCache \ {key} |-> tokenCache[k]]
  /\ UNCHANGED <<store, pc, req, loc, resp, issued, keyArgs, keyRes, db, mwArgs,
                 mwRes, authRun, events, eventsStore, registrations>>

Auth ==
  \/ verifyWixInstanceStart
  \/ optionalWixAuthStart
  \/ TokenInfoResponds
  \/ verifyAccessTokenAnswer
  \/ CacheExpire

SpecAuth == InitAuth /\ [][Auth]_vars

\* The event loop runs a middleware that can go on; nothing makes the
\* external service answer.
SpecAuthLive ==
  InitAuth /\ [][Auth]_vars /\ WF_vars(verifyAccessTokenAnswer)

----------------------------------------------------------------------------
(* Claims *)

\* the document a response took its settings from
UsedDoc(p) == store[resp[p].settingsFrom]

Answered(p, kind) == pc[p] = "done" /\ req[p].kind = kind

\* C1: two requests to widget-data or register for the same new pair of a
\* present instanceId and a present compId end with one record under the key
\* of the pair: when both were answered from a record under that key, it is
\* the same record.
IdempotentCreation ==
  \A p, q \in Procs :
    ( /\ p # q
      /\ pc[p] = "done" /\ pc[q] = "done"
      /\ req[p].kind \in {"widgetData", "register"}
      /\ req[q].kind \in {"widgetData", "register"}
      /\ Truthy(req[p].instanceId) /\ Truthy(req[p].compId)
      /\ req[q].instanceId = req[p].instanceId
      /\ req[q].compId = req[p].compId
      /\ resp[p].settingsFrom # 0 /\ resp[q].settingsFrom # 0
      /\ UsedDoc(p).tenantKey = computeTenantKey(req[p].instanceId, req[p].compId)
      /\ UsedDoc(q).tenantKey = computeTenantKey(req[p].instanceId, req[p].compId) )
    => resp[p].settingsFrom = resp[q].settingsFrom

\* C2: the key is injective on identities with a present instanceId: two
\* identities with the same key are the same identity.
TenantKeyInjective ==
  ( /\ KeysComputed
    /\ Truthy(keyArgs[1][1]) /\ Truthy(keyArgs[2][1])
    /\ keyRes[1] = keyRes[2] )
  => SameIdentity(keyArgs[1], keyArgs[2])

\* C3: for a present instanceId, the key with a present compId differs from
\* the key with the compId absent.
WidgetKeyDiffersFromSiteKey ==
  ( /\ KeysComputed
    /\ Truthy(keyArgs[1][1]) /\ keyArgs[2][1] = keyArgs[1][1]
    /\ Truthy(keyArgs[1][2]) /\ Falsy(keyArgs[2][2]) )
  => keyRes[1] # keyRes[2]

WidgetAndSiteKeyComputed ==
  /\ KeysComputed
  /\ keyArgs[1] = <<"a-a", "a">> /\ keyArgs[2] = <<"a-a", Undefined>>
  /\ keyRes[1] = "yoga-a-a-a" /\ keyRes[2] = "yoga-a-a"

\* C5: with the instanceId absent (undefined, null or the empty string) the
\* key is 'default', whatever the compId.
AbsentInstanceGivesDefault ==
  \A n \in {1, 2} :
    (KeysComputed /\ Falsy(keyArgs[n][1])) => keyRes[n] = "default"

EditorModeKeyComputed ==
  /\ KeysComputed
  /\ keyArgs[1] = <<"", "a">> /\ keyRes[1] = "default"
  /\ keyArgs[2] = <<Null, Undefined>> /\ keyRes[2] = "default"

\* C6: a request with no instanceId and no compId uses the key 'default' in
\* the settings handler, whatever else it carries.
DefaultKeyWithoutIdentity ==
  \A p \in Procs :
    ( /\ pc[p] = "pu_find"
      /\ Falsy(req[p].instanceId) /\ Falsy(req[p].compId) )
    => (req[p].tenantKey = "default" /\ loc[p].desiredKey = "default")

\* the documents stored under a key
Under(key) == {i \in DOMAIN store : store[i].tenantKey = key}

\* C7: the key query of widget-data and of premium-status, with instanceId
\* and compId present, uses a record under the exact key when there is one,
\* and a record under the instanceId-only key only when there is none under
\* the exact key.
LookupPriority ==
  [][ \A p \in Procs :
        ( /\ pc[p] \in {"wd_find", "ps_find"}
          /\ pc'[p] # pc[p]
          /\ Truthy(req[p].compId) )
        => LET exact == Under(computeTenantKey(req[p].instanceId, req[p].compId))
               shared == Under(computeTenantKey(req[p].instanceId, Null))
               used == resp'[p].settingsFrom
           IN  /\ exact # {} => used \in exact
               /\ used \in shared => exact = {}
               /\ (exact = {} /\ shared # {}) => used \in shared ]_vars

ExactPreferredOverShared ==
  \E p \in Procs :
    /\ pc[p] = "done" /\ req[p].kind \in {"widgetData", "premiumStatus"}
    /\ Truthy(req[p].instanceId) /\ Truthy(req[p].compId)
    /\ resp[p].settingsFrom # 0
    /\ UsedDoc(p).tenantKey = computeTenantKey(req[p].instanceId, req[p].compId)
    /\ Under(computeTenantKey(req[p].instanceId, Null)) # {}
    /\ \E i \in Under(computeTenantKey(req[p].instanceId, Null)) :
         i < resp[p].settingsFrom

\* C8: the settings widget-data returns for an authenticated identity come
\* from the record under the exact key or the record under the
\* instanceId-only key, never from another record.
SettingsFromOwnKeysOnly ==
  \A p \in Procs :
    ( /\ Answered(p, "widgetData")
      /\ Truthy(req[p].instanceId)
      /\ resp[p].settingsFrom # 0 )
    => UsedDoc(p).tenantKey \in
         {computeTenantKey(req[p].instanceId, req[p].compId),
          computeTenantKey(req[p].instanceId, Null)}

\* C9: after widget-data is served with instanceId and compId present, a
\* record under the exact key with that instanceId and compId exists, unless
\* a record under the exact key or the instanceId-only key was there before.
AutoProvisioning ==
  \A p \in Procs :
    ( /\ Answered(p, "widgetData")
      /\ resp[p].status = 200
      /\ Truthy(req[p].instanceId) /\ Truthy(req[p].compId)
      /\ Under(computeTenantKey(req[p].instanceId, Null)) = {}
      /\ \A i \in Under(computeTenantKey(req[p].instanceId, req[p].compId)) :
           store[i].instanceId = req[p].instanceId /\ store[i].compId = req[p].compId )
    => \E i \in Under(computeTenantKey(req[p].instanceId, req[p].compId)) :
         store[i].instanceId = req[p].instanceId /\ store[i].compId = req[p].compId

\* C10: no step of widget-data or register for a request that lacks
\* instanceId or compId changes the stored records, and register answers 400.
NoRecordWithoutIdentity ==
  [][ \A p \in Procs :
        ( /\ pc'[p] # pc[p]
          /\ req'[p].kind \in {"widgetData", "register"}
          /\ (Falsy(req'[p].instanceId) \/ Falsy(req'[p].compId)) )
        => /\ store' = store
           /\ (pc'[p] = "done" /\ req'[p].kind = "register")
                => resp'[p].status = 400 ]_vars

SiteRequestLeftStoreAlone ==
  \E p \in Procs :
    /\ Answered(p, "widgetData")
    /\ Truthy(req[p].instanceId) /\ Falsy(req[p].compId)
    /\ resp[p].status = 200 /\ resp[p].settingsFrom = 0
    /\ store = <<>>

\* the records of an instance, and those of them with a tier other than 'free'
OfInstance(instanceId) == {i \in DOMAIN store : store[i].instanceId = instanceId}

Paid(instanceId) ==
  {i \in OfInstance(instanceId) :
     Truthy(store[i].premiumPlanName) /\ store[i].premiumPlanName # "free"}

TierSharedPerSite ==
  (\A p \in Procs : pc[p] = "idle")
  => \A i, j \in DOMAIN store :
       (Truthy(store[i].instanceId) /\ store[i].instanceId = store[j].instanceId)
       => store[i].premiumPlanName = store[j].premiumPlanName

\* C13: a POST /api/settings/ui-preferences on an existing record leaves the
\* preference groups that its body does not supply as they were stored.
PartialUpdateFrame ==
  [][ \A p \in Procs :
        ( /\ pc[p] = "pu_save" /\ pc'[p] = "done"
          /\ resp'[p].status = 200
          /\ loc[p].saved.id # 0 )
        => LET body == req[p].bPrefs
               before == store[loc[p].saved.id].prefs
               after == store'[loc[p].saved.id].prefs
           IN  /\ ~HasLayout(body)
                    => after.layoutDefaultMode = before.layoutDefaultMode
               /\ ~HasAppearance(body)
                    => after.appearancePrimaryColor = before.appearancePrimaryColor
               /\ ~HasUiPreferences(body)
                    => /\ after.uiPrimaryColor = before.uiPrimaryColor
                       /\ after.uiLanguage = before.uiLanguage
               /\ ~HasCalendar(body)
                    => after.calendarWeekStartsOn = before.calendarWeekStartsOn
               /\ ~HasBehavior(body)
                    => after.behaviorLanguage = before.behaviorLanguage ]_vars

\* C14: a tenantKey, instanceId or compId that a record has is never changed
\* to another value.
IdentityWriteOnce ==
  [][ \A i \in DOMAIN store :
        /\ Truthy(store[i].tenantKey) => store'[i].tenantKey = store[i].tenantKey
        /\ Truthy(store[i].instanceId) => store'[i].instanceId = store[i].instanceId
        /\ Truthy(store[i].compId) => store'[i].compId = store[i].compId ]_vars

\* C15: a POST /api/settings/ui-preferences that is answered while the store
\* is unavailable is answered with a 5xx status.
SettingsWriteFailsWithoutStore ==
  [][ \A p \in Procs :
        ( /\ pc[p] # "done" /\ pc'[p] = "done"
          /\ req'[p].kind = "postUiPrefs"
          /\ db = "down" )
        => resp'[p].status >= 500 ]_vars

\* C16: a settings lookup of GET /api/settings/ui-preferences, or of GET
\* /api/widget-data for a request with an instanceId or a compId, that is
\* answered while the store is unavailable is answered with a 5xx status.
LookupFailsWithoutStore ==
  [][ \A p \in Procs :
        ( /\ pc[p] # "done" /\ pc'[p] = "done"
          /\ \/ req'[p].kind = "getUiPrefs"
             \/ /\ req'[p].kind = "widgetData"
                /\ (Truthy(req'[p].instanceId) \/ Truthy(req'[p].compId))
          /\ db = "down" )
        => resp'[p].status >= 500 ]_vars

\* C17: every 2xx response of GET /api/widget-data and of GET
\* /api/settings/ui-preferences carries a settings object with its layout,
\* appearance, calendar and behavior groups.
TotalResolution ==
  \A p \in Procs :
    ( /\ pc[p] = "done"
      /\ req[p].kind \in {"widgetData", "getUiPrefs"}
      /\ resp[p].status \in 200..299 )
    => /\ Truthy(resp[p].settings.layout)
       /\ Truthy(resp[p].settings.appearance)
       /\ Truthy(resp[p].settings.calendar)
       /\ Truthy(resp[p].settings.behavior)

PartialRecordResolved ==
  \E p \in Procs :
    /\ Answered(p, "widgetData")
    /\ resp[p].status = 200 /\ resp[p].settingsFrom # 0
    /\ UsedDoc(p).prefs.layoutDefaultMode = "list"
    /\ UsedDoc(p).prefs.calendarWeekStartsOn = Undefined
    /\ resp[p].settings.layout = "list"
    /\ resp[p].settings.calendar = "sunday"

\* the sources of a compId in their order, and the first of them that is a
\* string with something other than white space in it
Sources(r) == <<r.hCompId, r.qCompId, r.qCompIdAlt, r.qCompIdDash, r.bCompId>>

NonEmpty(v) == IsString(v) /\ Trim(v) # ""

FirstNonEmpty(r) ==
  LET hits == {i \in DOMAIN Sources(r) : NonEmpty(Sources(r)[i])}
  IN  IF hits = {} THEN Undefined
      ELSE Trim(Sources(r)[CHOOSE i \in hits : \A j \in hits : i <= j])

\* C18: for string-valued sources, extractCompId returns the first non-empty
\* value in the order header, query compId, query comp_id, query comp-id,
\* body compId, and undefined only when all of them are absent or empty.
CompIdPrecedence ==
  (mwRes.computed /\ mwArgs.r.hCompIdList = <<>>)
  => mwRes.compId = FirstNonEmpty(mwArgs.r)

\* C19: a compId that extractCompId returns is never empty and never begins
\* or ends with white space, for a header that is a string or a list.
CompIdNeverBlank ==
  (mwRes.computed /\ mwRes.compId # Undefined)
  => (mwRes.compId # "" /\ Trim(mwRes.compId) = mwRes.compId)

\* the credential of the request was verified
Verified ==
  /\ mwArgs.configured
  /\ RemoveFirst(Or(mwArgs.r.authorization, ""), "Bearer ") \in KnownTokens

AuthAnswered(mode) == authRun.phase = "done" /\ authRun.mode = mode

\* C21: in production verifyWixInstance calls next only for a credential the
\* external verification accepts; without a credential it answers 401
\* 'Authentication token required', with a credential that does not verify
\* it answers 401 'Invalid or expired access token', and in both cases next
\* is not called and req.wix is not set.
StrictInProduction ==
  (AuthAnswered("strict") /\ Production /\ AppConfigured)
  => LET accessToken == AccessToken(mwArgs.r)
         refused(error) == /\ authRun.out = Abort(401)
                           /\ authRun.error = error
     IN  /\ authRun.out.nextCalls = 1 => TokenInfo(accessToken).ok
         /\ Falsy(accessToken) => refused("Authentication token required")
         /\ (Truthy(accessToken) /\ ~TokenInfo(accessToken).ok)
            => refused("Invalid or expired access token")

\* C22: an identity that verifyAccessToken returns from the cache is the
\* identity a fresh verification of the same credential produces.
CacheTransparent ==
  (authRun.phase = "done" /\ authRun.hit)
  => LET info == TokenInfo(AccessToken(mwArgs.r))
     IN  info.ok /\ authRun.wixData = info.result

\* C23: a request that optionalWixAuth holds for the external verification
\* eventually reaches next.
BoundedVerification ==
  (authRun.phase = "verifying" /\ authRun.mode = "optional")
  ~> (authRun.phase = "done" /\ authRun.out.nextCalls = 1)

\* C24: a request that carries a compId and no credential is answered with
\* the default tenant key and the default settings, whatever the store holds.
EditorModeDefaults ==
  \A p \in Procs :
    (/\ pc[p] = "done"
     /\ req[p].kind \in {"widgetData", "getUiPrefs"}
     /\ Truthy(req[p].compId)
     /\ Falsy(req[p].instanceId)
     /\ resp[p].status = 200)
    => /\ Or(req[p].tenantKey, "default") = "default"
       /\ resp[p].settings = IF req[p].kind = "widgetData"
                             THEN defaultSettings
                             ELSE PanelSettings(NoDoc)

\* C25: the tenant key under which the ui-preferences routes read and write
\* the record of an identified request is the key computeTenantKey gives for
\* its (instanceId, compId), the one widget-data and register use.
OneKeyForAllPaths ==
  \A p \in Procs :
    (/\ req[p].kind \in {"postUiPrefs", "getUiPrefs"}
     /\ pc[p] \in {"pu_find", "pu_save", "gu_find"}
     /\ Truthy(req[p].instanceId))
    => loc[p].desiredKey = DesiredKey(req[p])

\* C26: a POST /api/settings/ui-preferences on an existing record gives every
\* key its body supplies the supplied value, and in a group of which the body
\* supplies some keys the other keys stay as they were stored.
KeyWiseMerge ==
  [][ \A p \in Procs :
        ( /\ pc[p] = "pu_save" /\ pc'[p] = "done"
          /\ resp'[p].status = 200
          /\ loc[p].saved.id # 0 )
        => LET body == req[p].bPrefs
               before == store[loc[p].saved.id].prefs
               after == store'[loc[p].saved.id].prefs
           IN  /\ \A k \in DOMAIN body : Truthy(body[k]) => after[k] = body[k]
               /\ HasUiPreferences(body)
                    => /\ Falsy(body.uiPrimaryColor)
                            => after.uiPrimaryColor = before.uiPrimaryColor
                       /\ Falsy(body.uiLanguage)
                            => after.uiLanguage = before.uiLanguage ]_vars

\* every stored event, in the collection or in memory
AllEvents ==
  {events[i] : i \in DOMAIN events}
  \cup {eventsStore[i] : i \in DOMAIN eventsStore}

\* C27: the events a request is answered with (GET /api/events, GET
\* /api/widget-data) or changes or removes (PUT, DELETE /api/events/:id) carry
\* the tenant key of that request, and no step changes the tenantKey of a
\* stored event.
EventTenantIsolation ==
  [][ /\ \A p \in Procs :
           ( /\ pc[p] # "done" /\ pc'[p] = "done"
             /\ req'[p].kind \in {"getEvents", "widgetData", "putEvent",
                                  "deleteEvent"}
             /\ resp'[p].status = 200 )
           => \A event \in resp'[p].events :
                event.tenantKey = EventsKey(req'[p])
      /\ \A before \in AllEvents : \A after \in AllEvents' :
           before.id = after.id => before.tenantKey = after.tenantKey ]_vars

\* C28: the premiumPlanName that GET /api/widget-data reports is the one GET
\* /api/premium-status reports for the same identity on the same store.
TierAgreement ==
  \A p \in Procs :
    (Answered(p, "widgetData") /\ resp[p].status = 200)
    => resp[p].premiumPlanName = PremiumStatusOn(req[p]).premiumPlanName

\* C29: the premiumPlanName of a stored record changes only in a step of a
\* request whose verified instanceId is the instanceId of that record.
TierChangedByOwnerOnly ==
  [][ \A i \in DOMAIN store :
        (i \in DOMAIN store'
         /\ store'[i].premiumPlanName # store[i].premiumPlanName)
        => \E p \in Procs :
             /\ pc'[p] # pc[p]
             /\ Truthy(req[p].instanceId)
             /\ req[p].instanceId = store[i].instanceId ]_vars

\* C30: the confirmed and paid registrations of an event never outnumber its
\* maxParticipants.
CapacityNeverExceeded ==
  \A i \in DOMAIN events :
    Cardinality(ConfirmedOf(events[i].id, events[i].tenantKey))
      <= events[i].maxParticipants
====
